---- MODULE Spec2Model ----
(***************************************************************************)
(* The inventory-policy calculations of calculations.py, as a state        *)
(* machine: a caller is idle, calls one calculation with some arguments,   *)
(* observes what the call returned or raised, and goes back to idle        *)
(* (Spec); and the dashboard of streamlit_app.py, which runs the whole     *)
(* analysis on a button click and keeps the results in st.session_state    *)
(* (AppSpec).                                                              *)
(*                                                                         *)
(* Numbers.  A Python/numpy float is a record [cls, m]: cls is "fin",      *)
(* "nan", "pinf" or "ninf", and for a finite value m is the value in       *)
(* thousandths (fixed point, Scale = 1000), so 1.645 is 1645 and 20.0 is   *)
(* 20000.  Products are rounded to the nearest thousandth and square roots *)
(* are truncated to a thousandth.  The non-finite values follow IEEE 754.  *)
(* A Python int returned by round() is a plain integer (whole units).      *)
(* A service level is written in percent (95 is 0.95).                     *)
(***************************************************************************)
EXTENDS Integers, Sequences, FiniteSets, TLC

VARIABLES pc, fn, args, ret,
          sel_component, sel_lead_time, sel_service_level, page,
          session_results, analysis_done, run_outcome, computed_for

\* one call of a calculation: the caller's position, the function called,
\* its arguments, and what it returned or raised
callvars == <<pc, fn, args, ret>>

\* the dashboard (streamlit_app.py): the sidebar widgets, the page shown,
\* st.session_state (results, analysis_done), what the last script run
\* reported ("none": no analysis run, "ok", "error": st.error shown), and,
\* as a history variable, the inputs the stored results were computed from
appvars == <<sel_component, sel_lead_time, sel_service_level, page,
             session_results, analysis_done, run_outcome, computed_for>>

vars == <<callvars, appvars>>

(* ------------------------------ bounds -------------------------------- *)

MaxHistory == 3

MaxForecast == 3

Scale == 10 * 100

DemandValues == {0, 20, 40}

LeadTimes == {-7, 0, 1, 2, 7, 30, 90}

ServiceLevels == {-5, 0, 5, 30, 50, 85, 90, 95, 99, 100, 105}

SeqsUpTo(S, n) == UNION {[1..k -> S] : k \in 0..n}

DemandSeries == SeqsUpTo(DemandValues, MaxHistory)

ForecastRows ==
    { [yhat |-> 90000,  yhat_upper |-> 100400],
      [yhat |-> 200000, yhat_upper |-> 250300],
      [yhat |-> 480000, yhat_upper |-> 500000] }

Horizon30 == [i \in 1..30 |-> [yhat |-> 480000, yhat_upper |-> 500000]]

Forecasts == SeqsUpTo(ForecastRows, MaxForecast) \cup {Horizon30}

SafetyStocks == {-3000, 0, 180000, 180500}

Inventories == {0, 10400, 10500, 11500, 10000000, 15180000, 20000000}

UnitCosts == {-1000, 0, 500, 85000}

HoldingCostRates == {-100, 0, 200, 255}

MaxTable == 2

\* item identifiers, each a string written as the sequence of its characters
ComponentIds ==
    { <<"I", "C", "-", "1">>,
      <<"I", "C">>,
      <<"R", "E", "S", "-", "1">>,
      <<"C", "A", "P", "-", "1">>,
      <<"C", "O", "N", "N", "-", "1">>,
      <<"S", "E", "N", "S", "O", "R", "-", "1">>,
      <<"M", "O", "D", "U", "L", "E", "-", "1">>,
      <<"L", "E", "D", "-", "1">>,
      <<"M", "O", "S", "F", "E", "T", "-", "1">>,
      <<"X", "Y", "Z", "-", "1">>,
      <<>>,
      <<"M", "I", "C", "-", "1">>,
      <<"r", "e", "s", "-", "1">> }

CostRows ==
    { [Component_ID |-> <<"I", "C", "-", "1">>, Unit_Cost |-> 90000],
      [Component_ID |-> <<"I", "C", "-", "1">>, Unit_Cost |-> 70000],
      [Component_ID |-> <<"X", "Y", "Z", "-", "1">>, Unit_Cost |-> 3000],
      [Component_ID |-> <<"R", "E", "S", "-", "1">>, Unit_Cost |-> 250] }

CostTables == SeqsUpTo(CostRows, MaxTable)

SafetyMultipliers == {-1000, 0, 1500, 30000, 60000}

(* --------------------------- float values ----------------------------- *)

fin(m) == [cls |-> "fin", m |-> m]

NaN == [cls |-> "nan", m |-> 0]

PInf == [cls |-> "pinf", m |-> 0]

NInf == [cls |-> "ninf", m |-> 0]

Max(a, b) == IF b > a THEN b ELSE a

Sign(x) ==
    CASE x.cls = "pinf" -> 1
      [] x.cls = "ninf" -> -1
      [] x.cls = "fin" -> IF x.m > 0 THEN 1 ELSE IF x.m < 0 THEN -1 ELSE 0
      [] OTHER -> 0

\* a * b / Scale for thousandths a, b, rounded to the nearest thousandth;
\* a is split so that the intermediate products stay within 32 bits
MulScaled(a, b) == (a \div Scale) * b + (((a % Scale) * b + Scale \div 2) \div Scale)

\* the float product a * b
fmul(a, b) ==
    IF a.cls = "nan" \/ b.cls = "nan" THEN NaN
    ELSE IF a.cls = "fin" /\ b.cls = "fin" THEN fin(MulScaled(a.m, b.m))
    ELSE IF Sign(a) * Sign(b) = 0 THEN NaN
    ELSE IF Sign(a) * Sign(b) > 0 THEN PInf
    ELSE NInf

\* the float quotient a / b of finite values: a zero divisor gives an
\* infinity, or nan for 0 / 0 (numpy warns, it does not raise)
fdiv(a, b) ==
    IF a.cls # "fin" \/ b.cls # "fin" THEN NaN
    ELSE IF b.m = 0 THEN (IF a.m = 0 THEN NaN ELSE IF a.m > 0 THEN PInf ELSE NInf)
    ELSE fin((a.m * Scale) \div b.m)

\* floor(sqrt(n)) for an integer n >= 0
ISqrt(n) == CHOOSE r \in 0..n : r * r <= n /\ (r + 1) * (r + 1) > n

\* k more decimal digits of a square root, by the schoolbook method: r is
\* the root so far and rem the remainder n - r*r
RECURSIVE SqrtDigits(_, _, _)
SqrtDigits(r, rem, k) ==
    IF k = 0 THEN r
    ELSE LET d == CHOOSE x \in 0..9 :
                    /\ (20 * r + x) * x <= 100 * rem
                    /\ (x = 9 \/ (20 * r + x + 1) * (x + 1) > 100 * rem)
         IN SqrtDigits(10 * r + d, 100 * rem - (20 * r + d) * d, k - 1)

\* floor(1000 * sqrt(n)) for an integer n >= 0
SqrtMilli(n) == SqrtDigits(ISqrt(n), n - ISqrt(n) * ISqrt(n), 3)

(* ------------------- numpy, scipy, pandas, builtins ------------------- *)

Ok(v) == [kind |-> "ok", value |-> v, exc |-> "none"]

Raise(e) == [kind |-> "raise", value |-> 0, exc |-> e]

RECURSIVE SumSeq(_)
SumSeq(s) == IF s = <<>> THEN 0 ELSE Head(s) + SumSeq(Tail(s))

RECURSIVE SumSquares(_)
SumSquares(s) == IF s = <<>> THEN 0 ELSE Head(s) * Head(s) + SumSquares(Tail(s))

\* n^2 times the population variance of s: n * sum(x^2) - (sum x)^2
VarNum(s) == Len(s) * SumSquares(s) - SumSeq(s) * SumSeq(s)

\* np.std with ddof=1 (the sample standard deviation)
npStdSample(a) ==
    IF Len(a) <= 1 THEN NaN
    ELSE fin(SqrtMilli(VarNum(a) * Len(a) * (Len(a) - 1)) \div (Len(a) * (Len(a) - 1)))

\* np.std(a): the population standard deviation (ddof=0); an empty input
\* gives nan (with a RuntimeWarning, not an exception)
npStd(a) ==
    IF Len(a) = 0 THEN NaN
    ELSE fin(SqrtMilli(VarNum(a)) \div Len(a))

\* np.sqrt(x) of an integer x: nan for a negative x (a RuntimeWarning)
npSqrt(x) == IF x < 0 THEN NaN ELSE fin(SqrtMilli(x))

\* the inverse standard normal CDF at the service levels of the model, in
\* thousandths
ZTable ==
    (5 :> -1645) @@ (30 :> -524) @@ (50 :> 0) @@ (85 :> 1036) @@
    (90 :> 1282) @@ (95 :> 1645) @@ (99 :> 2326)

\* norm.ppf(1 - q): the z-score of the wrong tail
normPpfUpperTail(q) ==
    IF q < 0 \/ q > 100 THEN NaN
    ELSE IF q = 0 THEN PInf
    ELSE IF q = 100 THEN NInf
    ELSE fin(-ZTable[q])

\* stats.norm.ppf(q), q in percent: -inf at 0, +inf at 1, nan outside [0, 1]
normPpf(q) ==
    IF q < 0 \/ q > 100 THEN NaN
    ELSE IF q = 0 THEN NInf
    ELSE IF q = 100 THEN PInf
    ELSE fin(ZTable[q])

\* the nearest integer to m thousandths, a tie going to the even integer
RoundHalfEven(m) ==
    LET q == m \div Scale
        r == m % Scale
    IN IF 2 * r < Scale THEN q
       ELSE IF 2 * r > Scale THEN q + 1
       ELSE IF q % 2 = 0 THEN q ELSE q + 1

\* round() that hands a non-finite float back as if it were finite
pyRoundUnchecked(x) == IF x.cls = "fin" THEN Ok(RoundHalfEven(x.m)) ELSE Ok(0)

\* round(x) of a float: an int, or ValueError for nan and OverflowError for
\* an infinity
pyRound(x) ==
    CASE x.cls = "nan" -> Raise("ValueError")
      [] x.cls \in {"pinf", "ninf"} -> Raise("OverflowError")
      [] OTHER -> Ok(RoundHalfEven(x.m))

\* df.iloc[-n:] without the n = 0 case: -0 is 0, so all rows come back
pandasTailNoZeroCase(df, n) ==
    IF n >= 0 /\ n <= Len(df) /\ n # 0 THEN SubSeq(df, Len(df) - n + 1, Len(df))
    ELSE IF n < 0 THEN SubSeq(df, 1 - n, Len(df))
    ELSE df

\* df.tail(n): no rows for n = 0, the last n rows for n > 0 (all rows when
\* there are fewer), all but the first -n rows for n < 0
pandasTail(df, n) ==
    IF n = 0 THEN <<>>
    ELSE IF n > 0 THEN SubSeq(df, Max(1, Len(df) - n + 1), Len(df))
    ELSE SubSeq(df, 1 - n, Len(df))

\* df[col].sum(): 0.0 for no rows
RECURSIVE ColumnSum(_, _)
ColumnSum(df, col) ==
    IF df = <<>> THEN 0 ELSE Head(df)[col] + ColumnSum(Tail(df), col)

(* --------------------------- calculations.py -------------------------- *)

\* SS = Z * sigma / sqrt(L): the lead-time factor divided instead of
\* multiplied
calculate_safety_stock_divided(historical_demand, lead_time, service_level) ==
    LET z_score == normPpf(service_level)
        demand_std == npStd(historical_demand)
        safety_stock == fdiv(fmul(z_score, demand_std), npSqrt(lead_time))
    IN pyRound(safety_stock)

\* SS = |Z| * sigma * sqrt(L): the sign of the z-score dropped
calculate_safety_stock_abs(historical_demand, lead_time, service_level) ==
    LET z_score == normPpf(service_level)
        demand_std == npStd(historical_demand)
        safety_stock == fmul(fmul(IF z_score.cls = "fin" /\ z_score.m < 0
                                  THEN fin(-z_score.m) ELSE z_score,
                                  demand_std), npSqrt(lead_time))
    IN pyRound(safety_stock)

\* SS = Z * sigma * sqrt(L), rounded
calculate_safety_stock(historical_demand, lead_time, service_level) ==
    LET z_score == normPpf(service_level)
        demand_std == npStd(historical_demand)
        safety_stock == fmul(fmul(z_score, demand_std), npSqrt(lead_time))
    IN pyRound(safety_stock)

\* the point estimate summed instead of the upper bound
calculate_demand_over_lead_time_yhat(forecast_df, lead_time) ==
    LET future_forecast == pandasTail(forecast_df, lead_time)
        worst_case_demand == fin(ColumnSum(future_forecast, "yhat"))
    IN pyRound(worst_case_demand)

\* D_L = sum of yhat_upper over the last lead_time rows, rounded
calculate_demand_over_lead_time(forecast_df, lead_time) ==
    LET future_forecast == pandasTail(forecast_df, lead_time)
        worst_case_demand == fin(ColumnSum(future_forecast, "yhat_upper"))
    IN pyRound(worst_case_demand)

\* the safety stock left out of the sum
calculate_optimal_inventory_demand_only(forecast_df, lead_time, safety_stock) ==
    LET demand_during_lead_time == calculate_demand_over_lead_time(forecast_df, lead_time)
    IN IF demand_during_lead_time.kind = "raise" THEN demand_during_lead_time
       ELSE pyRound(fin(demand_during_lead_time.value * Scale))

\* OIL = D_L + SS, rounded; safety_stock is in thousandths
calculate_optimal_inventory(forecast_df, lead_time, safety_stock) ==
    LET demand_during_lead_time == calculate_demand_over_lead_time(forecast_df, lead_time)
    IN IF demand_during_lead_time.kind = "raise" THEN demand_during_lead_time
       ELSE LET optimal_inventory == demand_during_lead_time.value * Scale + safety_stock
            IN pyRound(fin(optimal_inventory))

\* the order quantity without the max(0, .)
calculate_order_quantity_unclamped(optimal_inventory, current_inventory) ==
    pyRound(fin(optimal_inventory - current_inventory))

\* ROQ = max(0, round(OIL - current stock)); both arguments in thousandths
calculate_order_quantity(optimal_inventory, current_inventory) ==
    Ok(Max(0, pyRound(fin(optimal_inventory - current_inventory)).value))

\* np.min(a)
npMin(a) ==
    IF a = <<>> THEN Raise("ValueError")
    ELSE Ok(CHOOSE x \in {a[i] : i \in 1..Len(a)} : \A i \in 1..Len(a) : x <= a[i])

\* np.max(a): the largest element; ValueError for an empty array
npMax(a) ==
    IF a = <<>> THEN Raise("ValueError")
    ELSE Ok(CHOOSE x \in {a[i] : i \in 1..Len(a)} : \A i \in 1..Len(a) : x >= a[i])

\* the default of the safety_multiplier parameter (days)
safety_multiplier_default == 60

\* round(peak demand * safety multiplier); the multiplier in thousandths
estimate_old_method_inventory(historical_demand, safety_multiplier) ==
    LET peak_demand == npMax(historical_demand)
    IN IF peak_demand.kind = "raise" THEN peak_demand
       ELSE pyRound(fin(peak_demand.value * safety_multiplier))

\* the default of the holding_cost_rate parameter: 0.20, in thousandths
holding_cost_rate_default == 200

\* the savings with the tuple returned in the order (capital, reduction,
\* annual)
calculate_cost_savings_swapped(optimal_inventory, old_method_inventory, component_cost, holding_cost_rate) ==
    LET inventory_reduction == Max(0, old_method_inventory - optimal_inventory)
        capital_released == fmul(fin(inventory_reduction), fin(component_cost))
        annual_savings == fmul(capital_released, fin(holding_cost_rate))
    IN Ok(<<pyRound(capital_released).value, inventory_reduction,
            pyRound(annual_savings).value>>)

\* the savings without the max(0, .) on the reduction
calculate_cost_savings_unclamped(optimal_inventory, old_method_inventory, component_cost, holding_cost_rate) ==
    LET inventory_reduction == old_method_inventory - optimal_inventory
        capital_released == fmul(fin(inventory_reduction), fin(component_cost))
        annual_savings == fmul(capital_released, fin(holding_cost_rate))
    IN Ok(<<pyRound(annual_savings).value, inventory_reduction,
            pyRound(capital_released).value>>)

\* (round(annual savings), inventory reduction, round(capital released));
\* all four arguments, and the reduction returned, in thousandths
calculate_cost_savings(optimal_inventory, old_method_inventory, component_cost, holding_cost_rate) ==
    LET inventory_reduction == Max(0, old_method_inventory - optimal_inventory)
        capital_released == fmul(fin(inventory_reduction), fin(component_cost))
        annual_savings == fmul(capital_released, fin(holding_cost_rate))
    IN Ok(<<pyRound(annual_savings).value, inventory_reduction,
            pyRound(capital_released).value>>)

\* str.startswith
startswith(str, prefix) ==
    Len(prefix) <= Len(str) /\ SubSeq(str, 1, Len(prefix)) = prefix

\* the fallback costs (thousandths) by identifier prefix, in the dict's
\* insertion order
cost_map ==
    << [prefix |-> <<"R", "E", "S", "-">>, cost |-> 500],
       [prefix |-> <<"C", "A", "P", "-">>, cost |-> 800],
       [prefix |-> <<"I", "C", "-">>, cost |-> 85000],
       [prefix |-> <<"C", "O", "N", "N", "-">>, cost |-> 8000],
       [prefix |-> <<"S", "E", "N", "S", "O", "R", "-">>, cost |-> 45000],
       [prefix |-> <<"M", "O", "D", "U", "L", "E", "-">>, cost |-> 120000],
       [prefix |-> <<"L", "E", "D", "-">>, cost |-> 1500],
       [prefix |-> <<"M", "O", "S", "F", "E", "T", "-">>, cost |-> 18000] >>

\* the fallback cost when no prefix matches: 10.0
default_cost == 10000

\* the prefix map consulted before the table
get_component_cost_prefix_first(component_id, current_df) ==
    LET hits == {i \in 1..Len(cost_map) : startswith(component_id, cost_map[i].prefix)}
        rows == {i \in 1..Len(current_df) : current_df[i].Component_ID = component_id}
    IN IF hits # {} THEN Ok(cost_map[CHOOSE i \in hits : \A j \in hits : i <= j].cost)
       ELSE IF rows # {}
            THEN Ok(current_df[CHOOSE i \in rows : \A j \in rows : i <= j].Unit_Cost)
       ELSE Ok(default_cost)

\* the Unit_Cost of the first row of the table with this Component_ID; with
\* no such row .values[0] raises IndexError, the bare except takes over and
\* returns the cost of the first prefix of cost_map the identifier starts
\* with, or the default
get_component_cost(component_id, current_df) ==
    LET rows == {i \in 1..Len(current_df) : current_df[i].Component_ID = component_id}
        hits == {i \in 1..Len(cost_map) : startswith(component_id, cost_map[i].prefix)}
    IN IF rows # {}
       THEN Ok(current_df[CHOOSE i \in rows : \A j \in rows : i <= j].Unit_Cost)
       ELSE IF hits # {} THEN Ok(cost_map[CHOOSE i \in hits : \A j \in hits : i <= j].cost)
       ELSE Ok(default_cost)

(* --------------------------- streamlit_app.py ------------------------- *)

\* the data set the dashboard loads: per component the daily demand history
\* (Units_Used), the stock on hand (units) and the unit cost (thousandths)
Components == {"CONN-USB-B", "IC-ATMEGA328P", "RES-10K-0.25W"}

Units_Used ==
    [c \in Components |->
        CASE c = "IC-ATMEGA328P" -> <<0, 40>>
          [] c = "RES-10K-0.25W" -> <<20, 20, 40>>
          [] OTHER -> <<20, 20>>]

Current_Stock ==
    [c \in Components |->
        CASE c = "IC-ATMEGA328P" -> 60
          [] c = "RES-10K-0.25W" -> 5000
          [] OTHER -> 0]

Unit_Cost ==
    [c \in Components |->
        CASE c = "IC-ATMEGA328P" -> 85000
          [] c = "RES-10K-0.25W" -> 500
          [] OTHER -> 8000]

\* positions of the two sliders (7..90 days, 0.85..0.99)
SliderLeadTimes == {7, 30}

SliderServiceLevels == {85, 95, 99}

Pages ==
    {"DASHBOARD OVERVIEW", "DEMAND ANALYSIS", "FINANCIAL PERFORMANCE",
     "PORTFOLIO REVIEW", "EXPORT REPORTS"}

\* the pages that show the stored results
ResultPages == {"DASHBOARD OVERVIEW", "FINANCIAL PERFORMANCE", "EXPORT REPORTS"}

\* the daily forecasts Prophet may produce; it does not keep them >= 0
DailyForecasts ==
    ForecastRows \cup {[yhat |-> -8000, yhat_upper |-> -5000]}

\* get_forecast(component_data, periods) when the fit succeeds: one row per
\* day of the history and of the periods ahead, here the same on every day
get_forecast(component_data, periods, daily) ==
    [i \in 1..(Len(component_data) + periods) |-> daily]

\* the try block of the button: the forecast and the five calculations in
\* turn, the first exception ending the run; Ok(bundle) when all completed.
\* fit_fails: get_forecast raises; otherwise daily is its daily forecast
RunAnalysis(component, lead_time, service_level, fit_fails, daily) ==
    IF fit_fails THEN Raise("Exception")
    ELSE
    LET historical_demand == Units_Used[component]
        forecast == get_forecast(historical_demand, lead_time + 60, daily)
        safety_stock == calculate_safety_stock(historical_demand, lead_time, service_level)
    IN IF safety_stock.kind = "raise" THEN safety_stock
       ELSE
    LET optimal_inventory ==
            calculate_optimal_inventory(forecast, lead_time, safety_stock.value * Scale)
    IN IF optimal_inventory.kind = "raise" THEN optimal_inventory
       ELSE
    LET order_quantity ==
            calculate_order_quantity(optimal_inventory.value * Scale,
                                     Current_Stock[component] * Scale)
        old_method_inventory ==
            estimate_old_method_inventory(historical_demand,
                                          safety_multiplier_default * Scale)
    IN IF old_method_inventory.kind = "raise" THEN old_method_inventory
       ELSE
    LET savings ==
            calculate_cost_savings(optimal_inventory.value * Scale,
                                   old_method_inventory.value * Scale,
                                   Unit_Cost[component], holding_cost_rate_default)
    IN Ok([optimal_inventory |-> optimal_inventory.value,
           safety_stock |-> safety_stock.value,
           order_quantity |-> order_quantity.value,
           old_method_inventory |-> old_method_inventory.value,
           annual_savings |-> savings.value[1],
           inventory_reduction |-> savings.value[2] \div Scale,
           capital_released |-> savings.value[3]])

\* the status box with the WARNING test made first
StatusBoxWarningFirst(current_stock, results) ==
    IF current_stock < results.optimal_inventory THEN "WARNING"
    ELSE IF current_stock < results.safety_stock THEN "CRITICAL"
    ELSE "HEALTHY"

\* the status box of the dashboard page
StatusBox(current_stock, results) ==
    IF current_stock < results.safety_stock THEN "CRITICAL"
    ELSE IF current_stock < results.optimal_inventory THEN "WARNING"
    ELSE "HEALTHY"

\* 'results' not in st.session_state
NoResults == [absent |-> TRUE]

HasResults == session_results # NoResults

(* ---------------------------- the caller ------------------------------ *)

NoArgs == [none |-> TRUE]

Init ==
    /\ pc = "idle"
    /\ fn = "none"
    /\ args = NoArgs
    /\ ret = Ok(0)
    /\ sel_component = "CONN-USB-B"
    /\ sel_lead_time = 30
    /\ sel_service_level = 95
    /\ page = "DASHBOARD OVERVIEW"
    /\ session_results = NoResults
    /\ analysis_done = FALSE
    /\ run_outcome = "none"
    /\ computed_for = NoResults

Call_calculate_safety_stock ==
    /\ pc = "idle"
    /\ \E h \in DemandSeries, L \in LeadTimes, s \in ServiceLevels :
        /\ args' = [historical_demand |-> h, lead_time |-> L, service_level |-> s]
        /\ ret' = calculate_safety_stock(h, L, s)
    /\ fn' = "calculate_safety_stock"
    /\ pc' = "returned"
    /\ UNCHANGED appvars

Call_calculate_demand_over_lead_time ==
    /\ pc = "idle"
    /\ \E f \in Forecasts, L \in LeadTimes :
        /\ args' = [forecast_df |-> f, lead_time |-> L]
        /\ ret' = calculate_demand_over_lead_time(f, L)
    /\ fn' = "calculate_demand_over_lead_time"
    /\ pc' = "returned"
    /\ UNCHANGED appvars

Call_calculate_optimal_inventory ==
    /\ pc = "idle"
    /\ \E f \in Forecasts, L \in LeadTimes, ss \in SafetyStocks :
        /\ args' = [forecast_df |-> f, lead_time |-> L, safety_stock |-> ss]
        /\ ret' = calculate_optimal_inventory(f, L, ss)
    /\ fn' = "calculate_optimal_inventory"
    /\ pc' = "returned"
    /\ UNCHANGED appvars

Call_calculate_order_quantity ==
    /\ pc = "idle"
    /\ \E o \in Inventories, c \in Inventories :
        /\ args' = [optimal_inventory |-> o, current_inventory |-> c]
        /\ ret' = calculate_order_quantity(o, c)
    /\ fn' = "calculate_order_quantity"
    /\ pc' = "returned"
    /\ UNCHANGED appvars

Call_calculate_cost_savings ==
    /\ pc = "idle"
    /\ \E o \in Inventories, b \in Inventories, c \in UnitCosts,
          r \in HoldingCostRates, omitted \in BOOLEAN :
        LET rate == IF omitted THEN holding_cost_rate_default ELSE r
        IN /\ args' = [optimal_inventory |-> o, old_method_inventory |-> b,
                       component_cost |-> c, holding_cost_rate |-> rate,
                       rate_omitted |-> omitted]
           /\ ret' = calculate_cost_savings(o, b, c, rate)
    /\ fn' = "calculate_cost_savings"
    /\ pc' = "returned"
    /\ UNCHANGED appvars

\* safety_multiplier is either given or left to its default
Call_estimate_old_method_inventory ==
    /\ pc = "idle"
    /\ \E h \in DemandSeries, m \in SafetyMultipliers, omitted \in BOOLEAN :
        LET multiplier == IF omitted THEN safety_multiplier_default * Scale ELSE m
        IN /\ args' = [historical_demand |-> h, safety_multiplier |-> multiplier,
                       multiplier_omitted |-> omitted]
           /\ ret' = estimate_old_method_inventory(h, multiplier)
    /\ fn' = "estimate_old_method_inventory"
    /\ pc' = "returned"
    /\ UNCHANGED appvars

Call_get_component_cost ==
    /\ pc = "idle"
    /\ \E id \in ComponentIds, t \in CostTables :
        /\ args' = [component_id |-> id, current_df |-> t]
        /\ ret' = get_component_cost(id, t)
    /\ fn' = "get_component_cost"
    /\ pc' = "returned"
    /\ UNCHANGED appvars

\* the caller is done with the result: the calculations keep no state
Return ==
    /\ pc = "returned"
    /\ pc' = "idle"
    /\ fn' = "none"
    /\ args' = NoArgs
    /\ ret' = Ok(0)
    /\ UNCHANGED appvars

Next ==
    \/ Call_calculate_safety_stock
    \/ Call_calculate_demand_over_lead_time
    \/ Call_calculate_optimal_inventory
    \/ Call_calculate_order_quantity
    \/ Call_calculate_cost_savings
    \/ Call_estimate_old_method_inventory
    \/ Call_get_component_cost
    \/ Return

Spec == Init /\ [][Next]_vars

(* ---------------------------- the dashboard --------------------------- *)

\* a widget change reruns the script without the button pressed: nothing
\* is written to st.session_state
SelectComponent ==
    /\ \E c \in Components \ {sel_component} : sel_component' = c
    /\ run_outcome' = "none"
    /\ UNCHANGED <<sel_lead_time, sel_service_level, page, session_results,
                   analysis_done, computed_for, callvars>>

SelectLeadTime ==
    /\ \E L \in SliderLeadTimes \ {sel_lead_time} : sel_lead_time' = L
    /\ run_outcome' = "none"
    /\ UNCHANGED <<sel_component, sel_service_level, page, session_results,
                   analysis_done, computed_for, callvars>>

SelectServiceLevel ==
    /\ \E s \in SliderServiceLevels \ {sel_service_level} : sel_service_level' = s
    /\ run_outcome' = "none"
    /\ UNCHANGED <<sel_component, sel_lead_time, page, session_results,
                   analysis_done, computed_for, callvars>>

Navigate ==
    /\ \E p \in Pages \ {page} : page' = p
    /\ run_outcome' = "none"
    /\ UNCHANGED <<sel_component, sel_lead_time, sel_service_level,
                   session_results, analysis_done, computed_for, callvars>>

\* the button with analysis_done set before the try block
GenerateInsightsFlagFirst ==
    /\ \E fit_fails \in BOOLEAN, daily \in DailyForecasts :
        LET run == RunAnalysis(sel_component, sel_lead_time, sel_service_level,
                               fit_fails, daily)
        IN IF run.kind = "ok"
           THEN /\ session_results' = run.value
                /\ run_outcome' = "ok"
                /\ computed_for' = [component |-> sel_component,
                                    lead_time |-> sel_lead_time,
                                    service_level |-> sel_service_level,
                                    daily |-> daily]
           ELSE /\ run_outcome' = "error"
                /\ UNCHANGED <<session_results, computed_for>>
    /\ analysis_done' = TRUE
    /\ UNCHANGED <<sel_component, sel_lead_time, sel_service_level, page, callvars>>

\* GENERATE AI INSIGHTS: the analysis of the current selection; results and
\* analysis_done are stored after the last calculation, and an exception
\* anywhere in the try block only shows an error
GenerateInsights ==
    /\ \E fit_fails \in BOOLEAN, daily \in DailyForecasts :
        LET run == RunAnalysis(sel_component, sel_lead_time, sel_service_level,
                               fit_fails, daily)
        IN IF run.kind = "ok"
           THEN /\ session_results' = run.value
                /\ analysis_done' = TRUE
                /\ run_outcome' = "ok"
                /\ computed_for' = [component |-> sel_component,
                                    lead_time |-> sel_lead_time,
                                    service_level |-> sel_service_level,
                                    daily |-> daily]
           ELSE /\ run_outcome' = "error"
                /\ UNCHANGED <<session_results, analysis_done, computed_for>>
    /\ UNCHANGED <<sel_component, sel_lead_time, sel_service_level, page, callvars>>

AppNext ==
    \/ SelectComponent
    \/ SelectLeadTime
    \/ SelectServiceLevel
    \/ Navigate
    \/ GenerateInsights

AppSpec == Init /\ [][AppNext]_vars

(* ------------------------------ claims -------------------------------- *)

Integral(m) == m % Scale = 0

AllEqual(h) == \A i, j \in 1..Len(h) : h[i] = h[j]

IsSafetyStockCall == fn = "calculate_safety_stock"

\* the arguments the specification calls valid: a non-empty demand series,
\* a lead time >= 0 and a service level strictly between 0 and 1
ValidSafetyStockArgs ==
    /\ IsSafetyStockCall
    /\ Len(args.historical_demand) >= 1
    /\ args.lead_time >= 0
    /\ args.service_level > 0
    /\ args.service_level < 100

\* C1: calculate_order_quantity returns max(0, round(optimal - current)):
\* never negative, 0 whenever current stock >= the optimal level, and the
\* difference itself when current < optimal and both are whole units.
C1_OrderQuantity ==
    fn = "calculate_order_quantity" =>
        LET o == args.optimal_inventory
            c == args.current_inventory
            d == RoundHalfEven(o - c)
        IN /\ ret.kind = "ok"
           /\ ret.value >= 0
           /\ ret.value = (IF d > 0 THEN d ELSE 0)
           /\ (c >= o => ret.value = 0)
           /\ (c < o /\ Integral(o) /\ Integral(c) => ret.value * Scale = o - c)

C1_Witness ==
    /\ fn = "calculate_order_quantity"
    /\ args.optimal_inventory = 15180000
    /\ args.current_inventory = 10000000
    /\ ret = Ok(5180)

\* C2: with a unit cost >= 0 and a holding-cost rate >= 0, the annual
\* savings, the inventory reduction and the capital released returned by
\* calculate_cost_savings are all >= 0, and all three are exactly 0 when
\* the optimal inventory exceeds the baseline.
C2_SavingsNonNegative ==
    (/\ fn = "calculate_cost_savings"
     /\ args.component_cost >= 0
     /\ args.holding_cost_rate >= 0) =>
        /\ ret.kind = "ok"
        /\ ret.value[1] >= 0
        /\ ret.value[2] >= 0
        /\ ret.value[3] >= 0
        /\ (args.optimal_inventory > args.old_method_inventory
                => ret.value = <<0, 0, 0>>)

C2_Witness ==
    /\ fn = "calculate_cost_savings"
    /\ args.optimal_inventory > args.old_method_inventory
    /\ args.component_cost > 0
    /\ args.holding_cost_rate > 0
    /\ ret = Ok(<<0, 0, 0>>)

\* C3: for a whole-unit safety stock, calculate_optimal_inventory returns
\* exactly calculate_demand_over_lead_time(forecast, lead_time) plus the
\* safety stock: the final round changes nothing.
C3_OptimalIsDemandPlusSafety ==
    (fn = "calculate_optimal_inventory" /\ Integral(args.safety_stock)) =>
        /\ ret.kind = "ok"
        /\ ret.value =
             calculate_demand_over_lead_time(args.forecast_df, args.lead_time).value
               + args.safety_stock \div Scale

C3_Witness ==
    /\ fn = "calculate_optimal_inventory"
    /\ args.forecast_df = Horizon30
    /\ args.lead_time = 30
    /\ args.safety_stock = 180000
    /\ ret = Ok(15180)

\* C4 as stated: for every valid input (service level anywhere in (0, 1))
\* the safety stock is returned and is never negative.
C4_NonNegativeForAllValid ==
    ValidSafetyStockArgs => (ret.kind = "ok" /\ ret.value >= 0)

\* C4, amended: for every valid input with a service level of at least 0.5
\* the safety stock is returned and is never negative.
C4_NonNegativeFromHalf ==
    (ValidSafetyStockArgs /\ args.service_level >= 50) =>
        (ret.kind = "ok" /\ ret.value >= 0)

C4_Witness ==
    /\ ValidSafetyStockArgs
    /\ args.service_level >= 50
    /\ args.lead_time > 0
    /\ ret.kind = "ok"
    /\ ret.value > 0

LaterLeadTimesGiveAtLeast ==
    \A L2 \in LeadTimes :
        L2 > args.lead_time =>
            LET later == calculate_safety_stock(args.historical_demand, L2,
                                                args.service_level)
            IN later.kind = "ok" /\ ret.kind = "ok" /\ ret.value <= later.value

\* C5 as stated: for every demand series, every valid service level in
\* (0, 1) and lead times L1 < L2, the safety stock at L1 is <= that at L2.
C5_MonotoneInLeadTimeForAllValid ==
    ValidSafetyStockArgs => LaterLeadTimesGiveAtLeast

\* C5, amended: for every demand series, every service level in [0.5, 1)
\* and lead times 0 <= L1 < L2, the safety stock at L1 is <= that at L2.
C5_MonotoneInLeadTimeFromHalf ==
    (ValidSafetyStockArgs /\ args.service_level >= 50) => LaterLeadTimesGiveAtLeast

C5_Witness ==
    /\ ValidSafetyStockArgs
    /\ args.service_level = 95
    /\ args.lead_time = 7
    /\ ret.kind = "ok"
    /\ ret.value > 0
    /\ ret.value < calculate_safety_stock(args.historical_demand, 30,
                                          args.service_level).value

\* C6: for a demand series with standard deviation > 0, a lead time > 0 and
\* valid service levels s1 < s2, the (rounded) safety stock at s1 is <= the
\* one at s2.
C6_MonotoneInServiceLevel ==
    (/\ ValidSafetyStockArgs
     /\ ~AllEqual(args.historical_demand)
     /\ args.lead_time > 0) =>
        \A s2 \in ServiceLevels :
            (s2 > args.service_level /\ s2 < 100) =>
                LET higher == calculate_safety_stock(args.historical_demand,
                                                     args.lead_time, s2)
                IN higher.kind = "ok" /\ ret.kind = "ok" /\ ret.value <= higher.value

C6_Witness ==
    /\ ValidSafetyStockArgs
    /\ ~AllEqual(args.historical_demand)
    /\ args.lead_time = 30
    /\ args.service_level = 90
    /\ ret.kind = "ok"
    /\ ret.value > 0
    /\ ret.value < calculate_safety_stock(args.historical_demand, 30, 95).value

\* n^3 times the population variance, from the deviations from the mean:
\* the sum of (n * x - sum(h))^2 over the observations x
RECURSIVE SumSqDev(_, _, _)
SumSqDev(h, n, total) ==
    IF h = <<>> THEN 0
    ELSE (n * Head(h) - total) * (n * Head(h) - total) + SumSqDev(Tail(h), n, total)

\* sigma (thousandths) is the population standard deviation of h to within
\* a hundredth: (n * c)^2 * n <= 10^4 * n^3 * variance < (n * (c + 1))^2 * n
\* for c = sigma in hundredths
IsPopulationStd(h, sigma) ==
    LET n == Len(h)
        c == sigma \div 10
        v == SumSqDev(h, n, SumSeq(h)) * 100 * 100
    IN /\ (n * c) * (n * c) * n <= v
       /\ (n * (c + 1)) * (n * (c + 1)) * n > v

\* C7: calculate_safety_stock returns round(z * sigma * sqrt(lead_time))
\* with z the inverse normal CDF of the service level and sigma the
\* POPULATION standard deviation (divisor n) of the demand series; one
\* observation gives sigma = 0; sigma 20, lead time 30, service level 0.95
\* give 180.
C7_SafetyStockFormula ==
    ValidSafetyStockArgs =>
        LET h == args.historical_demand
            sigma == npStd(h)
        IN /\ sigma.cls = "fin"
           /\ IsPopulationStd(h, sigma.m)
           /\ (Len(h) = 1 => sigma.m = 0)
           /\ ret = pyRound(fmul(fmul(normPpf(args.service_level), sigma),
                                 npSqrt(args.lead_time)))
           /\ (sigma.m = 20000 /\ args.lead_time = 30 /\ args.service_level = 95
                 => ret = Ok(180))

C7_Witness ==
    /\ ValidSafetyStockArgs
    /\ args.historical_demand = <<0, 40>>
    /\ args.lead_time = 30
    /\ args.service_level = 95
    /\ ret = Ok(180)

\* C8: called with a service level <= 0 or >= 1, a negative lead time or an
\* empty demand series, calculate_safety_stock raises and returns no value,
\* whatever the other arguments are (zero deviation and lead time 0
\* included).
C8_InvalidArgsRaise ==
    (/\ IsSafetyStockCall
     /\ \/ args.service_level <= 0
        \/ args.service_level >= 100
        \/ args.lead_time < 0
        \/ args.historical_demand = <<>>) =>
        ret.kind = "raise"

C8_Witness ==
    /\ IsSafetyStockCall
    /\ args.service_level = 100
    /\ args.lead_time = 0
    /\ args.historical_demand = <<20, 20>>
    /\ ret = Raise("ValueError")

\* C9: a lead time of 0 and a zero standard deviation are accepted: for a
\* valid service level calculate_safety_stock returns exactly 0 when the
\* lead time is 0 or all observations are equal; with lead time 0
\* calculate_demand_over_lead_time returns 0 and the optimal inventory is
\* the (rounded) safety stock alone.
C9_ZeroContributions ==
    /\ (/\ ValidSafetyStockArgs
        /\ (args.lead_time = 0 \/ AllEqual(args.historical_demand)))
           => ret = Ok(0)
    /\ (fn = "calculate_demand_over_lead_time" /\ args.lead_time = 0)
           => ret = Ok(0)
    /\ (fn = "calculate_optimal_inventory" /\ args.lead_time = 0)
           => ret = Ok(RoundHalfEven(args.safety_stock))

C9_Witness ==
    /\ ValidSafetyStockArgs
    /\ args.lead_time = 0
    /\ ~AllEqual(args.historical_demand)
    /\ args.service_level = 99
    /\ ret = Ok(0)

\* the sum of the yhat_upper field of rows from..Len(f) of f
RECURSIVE UpperBoundsFrom(_, _)
UpperBoundsFrom(f, from) ==
    IF from > Len(f) THEN 0 ELSE f[from].yhat_upper + UpperBoundsFrom(f, from + 1)

\* C10: for a forecast with at least lead_time rows and lead_time >= 1,
\* calculate_demand_over_lead_time returns the rounded sum of yhat_upper
\* over exactly the last lead_time rows.
C10_SumOfLastUpperBounds ==
    (/\ fn = "calculate_demand_over_lead_time"
     /\ args.lead_time >= 1
     /\ Len(args.forecast_df) >= args.lead_time) =>
        ret = Ok(RoundHalfEven(
                UpperBoundsFrom(args.forecast_df,
                                Len(args.forecast_df) - args.lead_time + 1)))

C10_Witness ==
    /\ fn = "calculate_demand_over_lead_time"
    /\ args.lead_time = 2
    /\ args.forecast_df = << [yhat |-> 90000,  yhat_upper |-> 100400],
                             [yhat |-> 200000, yhat_upper |-> 250300],
                             [yhat |-> 480000, yhat_upper |-> 500000] >>
    /\ ret = Ok(750)

\* C11: when the forecast has fewer rows than lead_time, the lead-time
\* demand is never returned silently: the call either fails or its result
\* is marked as an InsufficientForecastHorizon degraded estimate.
C11_ShortForecastIsExplicit ==
    (/\ fn = "calculate_demand_over_lead_time"
     /\ args.lead_time > Len(args.forecast_df)) =>
        \/ ret.kind = "raise"
        \/ ret.exc = "InsufficientForecastHorizon"

Abs(x) == IF x < 0 THEN -x ELSE x

\* C12: calculate_cost_savings returns (annualSavings, inventoryReduction,
\* capitalReleased) with inventoryReduction = max(0, baseline - optimal),
\* capitalReleased = round(reduction * unitCost) and annualSavings =
\* round(reduction * unitCost * rate), the rate defaulting to 0.20; the
\* returned annualSavings is the returned capitalReleased * rate up to
\* rounding; 20,000 / 15,180 / 85.0 / 0.20 give 4,820, 409,700 and 81,940.
C12_CostSavingsFormula ==
    fn = "calculate_cost_savings" =>
        LET o == args.optimal_inventory
            b == args.old_method_inventory
            c == args.component_cost
            r == args.holding_cost_rate
            reduction == IF b - o > 0 THEN b - o ELSE 0
            capital == MulScaled(reduction, c)
            annual == MulScaled(capital, r)
        IN /\ ret = Ok(<<RoundHalfEven(annual), reduction, RoundHalfEven(capital)>>)
           /\ (args.rate_omitted => r = 200)
           /\ Abs(ret.value[1] * Scale - ret.value[3] * r) <= Scale \div 2 + Abs(r) \div 2 + 1
           /\ (o = 15180000 /\ b = 20000000 /\ c = 85000 /\ r = 200
                 => ret = Ok(<<81940, 4820000, 409700>>))

C12_Witness ==
    /\ fn = "calculate_cost_savings"
    /\ args.optimal_inventory = 15180000
    /\ args.old_method_inventory = 20000000
    /\ args.component_cost = 85000
    /\ args.rate_omitted
    /\ ret = Ok(<<81940, 4820000, 409700>>)

\* C14: for a non-empty demand series estimate_old_method_inventory returns
\* round(max(series) * safetyMultiplier), the multiplier defaulting to 60;
\* under the default the result is at least 60 times every observation.
C14_OldMethodIsPeakTimesMultiplier ==
    (fn = "estimate_old_method_inventory" /\ args.historical_demand # <<>>) =>
        LET h == args.historical_demand
            peak == CHOOSE i \in 1..Len(h) : \A j \in 1..Len(h) : h[i] >= h[j]
        IN /\ ret = Ok(RoundHalfEven(h[peak] * args.safety_multiplier))
           /\ (args.multiplier_omitted =>
                 /\ args.safety_multiplier = 60 * Scale
                 /\ \A j \in 1..Len(h) : ret.value >= 60 * h[j])

C14_Witness ==
    /\ fn = "estimate_old_method_inventory"
    /\ args.historical_demand = <<0, 40, 20>>
    /\ args.multiplier_omitted
    /\ ret = Ok(2400)

\* the known prefixes the identifier starts with
MatchingPrefixes(id) ==
    {i \in 1..Len(cost_map) :
        /\ Len(cost_map[i].prefix) <= Len(id)
        /\ \A k \in 1..Len(cost_map[i].prefix) : id[k] = cost_map[i].prefix[k]}

\* C13: get_component_cost always returns a cost and never raises: the
\* table's Unit_Cost when the identifier is in the table; otherwise the cost
\* of the longest known prefix the identifier starts with, which is also the
\* first matching prefix in map order; otherwise the default 10.0.
C13_CostLookupChain ==
    fn = "get_component_cost" =>
        LET id == args.component_id
            t == args.current_df
            present == \E i \in 1..Len(t) : t[i].Component_ID = id
            M == MatchingPrefixes(id)
        IN /\ ret.kind = "ok"
           /\ present =>
                \E i \in 1..Len(t) :
                    /\ t[i].Component_ID = id
                    /\ \A j \in 1..(i - 1) : t[j].Component_ID # id
                    /\ ret.value = t[i].Unit_Cost
           /\ (~present /\ M # {}) =>
                /\ \A i \in M :
                     (\A j \in M : Len(cost_map[i].prefix) >= Len(cost_map[j].prefix))
                        => ret.value = cost_map[i].cost
                /\ \A i \in M : (\A j \in M : i <= j) => ret.value = cost_map[i].cost
           /\ (~present /\ M = {}) => ret.value = 10000

C13_Witness ==
    /\ fn = "get_component_cost"
    /\ args.component_id = <<"S", "E", "N", "S", "O", "R", "-", "1">>
    /\ args.current_df # <<>>
    /\ ret = Ok(45000)

\* the stored bundle is what one complete run of the analysis produces for
\* the inputs it was computed from, and analysis_done implies a bundle
StoredResultsAreOneRun ==
    /\ analysis_done => HasResults
    /\ HasResults =>
         RunAnalysis(computed_for.component, computed_for.lead_time,
                     computed_for.service_level, FALSE, computed_for.daily)
           = Ok(session_results)

\* C15: across any sequence of clicks the results bundle is written only by
\* an analysis run that completed without exception, all seven fields come
\* from that one run, and a run that raises reports an error and leaves the
\* stored results and analysis_done unchanged (analysis_done only with a
\* bundle).
C15_ResultsOnlyFromCompleteRuns ==
    /\ []StoredResultsAreOneRun
    /\ [][/\ run_outcome' = "error" =>
                (session_results' = session_results /\ analysis_done' = analysis_done)
          /\ session_results' # session_results => run_outcome' = "ok"
          /\ analysis_done' # analysis_done => run_outcome' = "ok"]_vars

C15_Witness ==
    /\ run_outcome = "error"
    /\ HasResults
    /\ analysis_done
    /\ computed_for.component # sel_component

\* C16: whatever the sequence of sidebar changes, analysis runs and page
\* changes, the results shown on the dashboard, financial and export pages
\* were computed for the currently selected component, lead time and
\* service level.
C16_ResultsMatchSelection ==
    (HasResults /\ page \in ResultPages) =>
        /\ computed_for.component = sel_component
        /\ computed_for.lead_time = sel_lead_time
        /\ computed_for.service_level = sel_service_level

\* the dashboard shows the status box for a bundle computed for the
\* component now selected
StatusShownForSelection ==
    /\ HasResults
    /\ page = "DASHBOARD OVERVIEW"
    /\ computed_for.component = sel_component

StatusAgreesWithOrder ==
    LET stock == Current_Stock[sel_component]
        status == StatusBox(stock, session_results)
    IN /\ status = "HEALTHY" <=> session_results.order_quantity = 0
       /\ session_results.order_quantity = 0 <=> stock >= session_results.optimal_inventory
       /\ status \in {"WARNING", "CRITICAL"} <=> session_results.order_quantity > 0
       /\ stock < session_results.safety_stock => status = "CRITICAL"
       /\ (/\ status = "CRITICAL"
           /\ session_results.optimal_inventory >= session_results.safety_stock)
             => stock < session_results.optimal_inventory

\* C17 as stated: for a bundle computed for the selected component the
\* status is HEALTHY exactly when order_quantity is 0 (stock >= optimal),
\* WARNING or CRITICAL exactly when order_quantity > 0, CRITICAL (stock <
\* safety stock) comes first and, with a lead-time demand >= 0, implies
\* stock < optimal.
C17_StatusAgreesWithOrder ==
    StatusShownForSelection => StatusAgreesWithOrder

\* C17, amended: the same, for a bundle whose lead-time demand is >= 0
\* (optimal_inventory >= safety_stock).
C17_StatusAgreesWithOrderNonNegativeDemand ==
    (/\ StatusShownForSelection
     /\ session_results.optimal_inventory >= session_results.safety_stock)
        => StatusAgreesWithOrder

C17_Witness ==
    /\ StatusShownForSelection
    /\ session_results.optimal_inventory >= session_results.safety_stock
    /\ StatusBox(Current_Stock[sel_component], session_results) = "CRITICAL"
    /\ session_results.order_quantity > 0

====
